---------------------------- MODULE Spec2Model ----------------------------
(***************************************************************************)
(* Spin locks of package spinlock: Mutex (src/mutex.go) and RWMutex        *)
(* (src/unnamed/part_000).  Each lock is one 32-bit word changed only by   *)
(* atomic compare-and-swap and atomic add.  Every atomic operation of the  *)
(* source is one step of the model; runtime.Gosched() is a step of its own.*)
(*                                                                         *)
(* A 32-bit word is held as the signed integer with the same bit pattern   *)
(* (two's complement): the uint32 0xFFFFFFFE is the value -2.  Addition    *)
(* wraps modulo 2^32 exactly as the hardware addition does, for int32 and  *)
(* uint32 alike.                                                           *)
(***************************************************************************)
EXTENDS Integers, FiniteSets

\* Number of goroutines using a lock.
NumThreads == 3

\* Lock/increment/Unlock cycles each goroutine performs on the Mutex.
MaxCycles == 2

\* Calls the goroutines that call in any order begin on the RWMutex.
MaxCalls == 3

Threads == 1..NumThreads

VARIABLES
    m_state,    \* Mutex.state (int32)
    rw_state,   \* RWMutex.state (uint32, as its bit pattern)
    pc,         \* pc[t]: where goroutine t is
    last,       \* the last call completed: <<goroutine, call, result>>
    counter,    \* the plain integer the Mutex protects
    tmp,        \* tmp[t]: the value of counter t has read and not yet written
    cycles,     \* cycles[t]: Lock/increment/Unlock cycles t has completed
    calls       \* calls begun on the RWMutex by goroutines calling in any order

vars == <<m_state, rw_state, pc, last, counter, tmp, cycles, calls>>

---------------------------------------------------------------------------
(* 32-bit words *)

MaxInt32 == 2147483647
MinInt32 == (-MaxInt32) - 1

\* atomic.AddInt32: a + b modulo 2^32, as an int32.
AddInt32(a, b) ==
    IF b > 0 /\ a > MaxInt32 - b
    THEN ((a - MaxInt32) - 1) + ((b - MaxInt32) - 1)
    ELSE IF b < 0 /\ a < MinInt32 - b
    THEN ((a + MaxInt32) + 1) + ((b + MaxInt32) + 1)
    ELSE a + b

\* atomic.AddUint32: the same addition modulo 2^32 on the bit patterns.
AddUint32(a, b) == AddInt32(a, b)

\* Go's ^x on a 32-bit word: every bit flipped.
Not32(x) == (-x) - 1

\* The low n bits of a & b.  x % 2 is bit 0 of the pattern x and x \div 2
\* (rounding down) is the pattern shifted right by one, sign kept.  Once
\* one of the words has no bit left, neither has the result.
RECURSIVE AndLow(_, _, _)
AndLow(a, b, n) ==
    IF n = 0 \/ a = 0 \/ b = 0 THEN 0
    ELSE (a % 2) * (b % 2) + 2 * AndLow(a \div 2, b \div 2, n - 1)

\* Go's a & b on 32-bit words: bits 0..30, and bit 31 (the sign of the
\* pattern, worth -2^31) when both words have it.
And32(a, b) ==
    IF a < 0 /\ b < 0
    THEN (AndLow(a, b, 31) - MaxInt32) - 1
    ELSE AndLow(a, b, 31)

\* A swap that does not compare: a plain store in place of the atomic
\* compare-and-swap.
CompareAndSwapOk_NoCompare(cur, old) == TRUE

\* atomic.CompareAndSwap: the value stored, and whether the swap happened.
CompareAndSwapOk(cur, old) == cur = old

\* A swap that stores the new value whether or not the comparison holds.
CompareAndSwapVal_Store(cur, old, new) == new

CompareAndSwapVal(cur, old, new) == IF cur = old THEN new ELSE cur

---------------------------------------------------------------------------
(* Mutex, src/mutex.go lines 12-48 *)

mutexUnlocked == 0
mutexLocked == 1

\* Where a goroutine may call a method of the Mutex from: it holds nothing
\* ("idle") or it holds the mutex ("cs").
M_Client == {"idle", "cs"}

\* A Lock that returns at once when the caller already holds the mutex.
M_LockCAS_Recursive(t) ==
    /\ pc[t] \in M_Client \cup {"spin"}
    /\ m_state' = IF pc[t] # "cs" /\ m_state = mutexUnlocked
                  THEN mutexLocked
                  ELSE m_state
    /\ IF pc[t] = "cs" \/ m_state = mutexUnlocked
       THEN /\ pc' = [pc EXCEPT ![t] = "cs"]
            /\ last' = <<t, "Lock", "ok">>
       ELSE /\ pc' = [pc EXCEPT ![t] = "yield"]
            /\ last' = last
    /\ UNCHANGED <<rw_state, counter, tmp, cycles, calls>>

\* Mutex.Lock, line 25: one compare-and-swap of the loop.  It is the first
\* one of a call (pc in M_Client) or one after a Gosched (pc = "spin").
M_LockCAS(t) ==
    /\ pc[t] \in M_Client \cup {"spin"}
    /\ m_state' = CompareAndSwapVal(m_state, mutexUnlocked, mutexLocked)
    /\ IF CompareAndSwapOk(m_state, mutexUnlocked)
       THEN /\ pc' = [pc EXCEPT ![t] = "cs"]
            /\ last' = <<t, "Lock", "ok">>
       ELSE /\ pc' = [pc EXCEPT ![t] = "yield"]
            /\ last' = last
    /\ UNCHANGED <<rw_state, counter, tmp, cycles, calls>>

\* Mutex.Lock, line 26: runtime.Gosched(), then the loop tries again.
M_LockGosched(t) ==
    /\ pc[t] = "yield"
    /\ pc' = [pc EXCEPT ![t] = "spin"]
    /\ UNCHANGED <<m_state, rw_state, last, counter, tmp, cycles, calls>>

\* A TryLock built on an atomic increment that is not undone on failure.
M_TryLock_AddNoUndo(t) ==
    /\ pc[t] = "idle"
    /\ m_state' = AddInt32(m_state, mutexLocked)
    /\ IF AddInt32(m_state, mutexLocked) = mutexLocked
       THEN /\ pc' = [pc EXCEPT ![t] = "cs"]
            /\ last' = <<t, "TryLock", "true">>
       ELSE /\ pc' = pc
            /\ last' = <<t, "TryLock", "false">>
    /\ UNCHANGED <<rw_state, counter, tmp, cycles, calls>>

\* Mutex.TryLock, line 34: the compare-and-swap once, its result returned.
M_TryLock(t) ==
    /\ pc[t] = "idle"
    /\ m_state' = CompareAndSwapVal(m_state, mutexUnlocked, mutexLocked)
    /\ IF CompareAndSwapOk(m_state, mutexUnlocked)
       THEN /\ pc' = [pc EXCEPT ![t] = "cs"]
            /\ last' = <<t, "TryLock", "true">>
       ELSE /\ pc' = pc
            /\ last' = <<t, "TryLock", "false">>
    /\ UNCHANGED <<rw_state, counter, tmp, cycles, calls>>

\* An Unlock that works on a copy of the word and stores nothing.
M_UnlockAdd_NoStore(s) == s

\* What Mutex.Unlock stores: line 44.
M_UnlockAdd(s) == AddInt32(s, -mutexLocked)

\* The test of the value before the decrement taken for the value after it.
M_UnlockPanics_OldValue(state) == (state + mutexLocked) # mutexUnlocked

\* Whether Mutex.Unlock panics on the value it stored: line 45.
M_UnlockPanics(state) == state # mutexUnlocked

\* Mutex.Unlock, lines 43-48, called by a goroutine that is in no other
\* call.  A panic ends the goroutine; the word keeps what was stored.
M_Unlock(t) ==
    /\ pc[t] \in {"idle", "cs", "unlock"}
    /\ m_state' = M_UnlockAdd(m_state)
    /\ IF M_UnlockPanics(M_UnlockAdd(m_state))
       THEN /\ pc' = [pc EXCEPT ![t] = "panicked"]
            /\ last' = <<t, "Unlock", "panic">>
            /\ cycles' = cycles
       ELSE /\ pc' = [pc EXCEPT ![t] = "idle"]
            /\ last' = <<t, "Unlock", "ok">>
            /\ cycles' = IF pc[t] = "unlock"
                         THEN [cycles EXCEPT ![t] = @ + 1]
                         ELSE cycles
    /\ UNCHANGED <<rw_state, counter, tmp, calls>>

\* The critical section of the goroutines that share the counter: a plain
\* (non-atomic) read of the counter, then a plain write of the value read
\* plus one.
CS_Read(t) ==
    /\ pc[t] = "cs"
    /\ tmp' = [tmp EXCEPT ![t] = counter]
    /\ pc' = [pc EXCEPT ![t] = "write"]
    /\ UNCHANGED <<m_state, rw_state, last, counter, cycles, calls>>

CS_Write(t) ==
    /\ pc[t] = "write"
    /\ counter' = tmp[t] + 1
    /\ tmp' = [tmp EXCEPT ![t] = 0]
    /\ pc' = [pc EXCEPT ![t] = "unlock"]
    /\ UNCHANGED <<m_state, rw_state, last, cycles, calls>>

Init ==
    /\ m_state = mutexUnlocked
    /\ rw_state = 0
    /\ pc = [t \in Threads |-> "idle"]
    /\ last = <<0, "none", "none">>
    /\ counter = 0
    /\ tmp = [t \in Threads |-> 0]
    /\ cycles = [t \in Threads |-> 0]
    /\ calls = 0

\* Goroutines that follow the protocol: each runs MaxCycles cycles of
\* Lock (or a TryLock that returned true), increment, Unlock.
NextMutex ==
    \E t \in Threads :
        \/ cycles[t] < MaxCycles /\ pc[t] \in {"idle", "spin"} /\ M_LockCAS(t)
        \/ M_LockGosched(t)
        \/ cycles[t] < MaxCycles /\ M_TryLock(t)
        \/ CS_Read(t)
        \/ CS_Write(t)
        \/ pc[t] = "unlock" /\ M_Unlock(t)

SpecMutex == Init /\ [][NextMutex]_vars

\* Goroutines that call Lock, TryLock and Unlock in any order, whoever
\* holds the lock.
NextMutexAny ==
    \E t \in Threads :
        \/ pc[t] \in {"idle", "spin"} /\ M_LockCAS(t)
        \/ M_LockGosched(t)
        \/ M_TryLock(t)
        \/ pc[t] \in {"idle", "cs"} /\ M_Unlock(t)

SpecMutexAny == Init /\ [][NextMutexAny]_vars

\* Goroutines that lock and unlock the Mutex for ever: any of them may call
\* Lock or TryLock whenever it holds nothing, and the holder unlocks.
NextMutexLive ==
    \E t \in Threads :
        \/ pc[t] \in {"idle", "spin"} /\ M_LockCAS(t)
        \/ M_LockGosched(t)
        \/ M_TryLock(t)
        \/ pc[t] = "cs" /\ M_Unlock(t)

\* What goroutine t does next once it is inside Lock or holds the mutex:
\* the next compare-and-swap, the Gosched, the Unlock.
M_Continue(t) ==
    \/ pc[t] = "spin" /\ M_LockCAS(t)
    \/ M_LockGosched(t)
    \/ pc[t] = "cs" /\ M_Unlock(t)

\* The scheduler runs every goroutine that can run: a goroutine inside
\* Lock keeps taking the steps of the loop, and a holder calls Unlock.
\* Whether a goroutine that holds nothing calls again is up to it.
SpecMutexLive ==
    /\ Init
    /\ [][NextMutexLive]_vars
    /\ \A t \in Threads : WF_vars(M_Continue(t))

---------------------------------------------------------------------------
(* RWMutex, src/unnamed/part_000 lines 19-109 *)

rwmutexUnlocked == 0
rwmutexWrite == 1

\* A reader offset on the bit of the write flag.
rwmutexReadOffset_WriteBit == rwmutexWrite

rwmutexReadOffset == 2
rwmutexUnderflow == Not32(rwmutexWrite)

\* The complement taken without the "- 1": the addend is -2, not -1.
rwmutexWriterUnset_NoMinusOne == Not32(rwmutexWrite)

rwmutexWriterUnset == Not32(rwmutexWrite - 1)

\* The complement of the reader offset itself: one too many is taken off.
rwmutexReaderDecrease_NoMinusOne == Not32(rwmutexReadOffset)

\* The writer's addend used for the reader's decrement.
rwmutexReaderDecrease_WriterUnset == Not32(rwmutexWrite - 1)

rwmutexReaderDecrease == Not32(rwmutexReadOffset - 1)

\* Where a goroutine is when it is inside no call on the RWMutex: it holds
\* nothing, or its last RLock/TryRLock ("rheld") or Lock/TryLock ("wheld")
\* succeeded.
RW_Client == {"idle", "rheld", "wheld"}

\* An acquisition that succeeds only for the first reader: the word must
\* hold this reader's increment and nothing else.
RW_NoWriter_SoleReader(state) == state = rwmutexReadOffset

\* The test of lines 38, 45 and 59: the word has no write bit.
\* An RLock that returns whatever the word shows.
RW_NoWriter_Always(state) == TRUE

RW_NoWriter(state) == And32(state, rwmutexWrite) = 0

\* RWMutex.RLock, lines 35-40: the increment, and the return when the value
\* it produced has no write bit; otherwise the wait loop is entered.
RW_RLock(t) ==
    /\ pc[t] \in RW_Client
    /\ rw_state' = AddUint32(rw_state, rwmutexReadOffset)
    /\ IF RW_NoWriter(AddUint32(rw_state, rwmutexReadOffset))
       THEN /\ pc' = [pc EXCEPT ![t] = "rheld"]
            /\ last' = <<t, "RLock", "ok">>
       ELSE /\ pc' = [pc EXCEPT ![t] = "rwait"]
            /\ last' = last
    /\ UNCHANGED <<m_state, counter, tmp, cycles>>

\* RWMutex.RLock, lines 45-47: one load of the wait loop.
RW_RLockLoad(t) ==
    /\ pc[t] = "rwait"
    /\ IF RW_NoWriter(rw_state)
       THEN /\ pc' = [pc EXCEPT ![t] = "rheld"]
            /\ last' = <<t, "RLock", "ok">>
       ELSE /\ pc' = [pc EXCEPT ![t] = "ryield"]
            /\ last' = last
    /\ UNCHANGED <<m_state, rw_state, counter, tmp, cycles>>

\* RWMutex.RLock, line 48: runtime.Gosched(), then the loop loads again.
RW_RLockGosched(t) ==
    /\ pc[t] = "ryield"
    /\ pc' = [pc EXCEPT ![t] = "rwait"]
    /\ UNCHANGED <<m_state, rw_state, last, counter, tmp, cycles>>

\* RWMutex.TryRLock, lines 56-61: the increment, and the return of true when
\* the value it produced has no write bit; otherwise the undo is next.
RW_TryRLock(t) ==
    /\ pc[t] \in RW_Client
    /\ rw_state' = AddUint32(rw_state, rwmutexReadOffset)
    /\ IF RW_NoWriter(AddUint32(rw_state, rwmutexReadOffset))
       THEN /\ pc' = [pc EXCEPT ![t] = "rheld"]
            /\ last' = <<t, "TryRLock", "true">>
       ELSE /\ pc' = [pc EXCEPT ![t] = "undo"]
            /\ last' = last
    /\ UNCHANGED <<m_state, counter, tmp, cycles>>

\* A TryRLock that returns false without undoing its increment.
RW_TryRLockUndo_Missing(t) ==
    /\ pc[t] = "undo"
    /\ rw_state' = rw_state
    /\ pc' = [pc EXCEPT ![t] = "idle"]
    /\ last' = <<t, "TryRLock", "false">>
    /\ UNCHANGED <<m_state, counter, tmp, cycles>>

\* RWMutex.TryRLock, lines 64-65: the undo, and the return of false.
RW_TryRLockUndo(t) ==
    /\ pc[t] = "undo"
    /\ rw_state' = AddUint32(rw_state, rwmutexReaderDecrease)
    /\ pc' = [pc EXCEPT ![t] = "idle"]
    /\ last' = <<t, "TryRLock", "false">>
    /\ UNCHANGED <<m_state, counter, tmp, cycles>>

\* The underflow test made as a signed comparison.
RW_RUnlockPanics_Signed(state) == state < 0

\* Whether RWMutex.RUnlock panics on the value it stored: line 77.
RW_RUnlockPanics(state) == And32(state, rwmutexUnderflow) = rwmutexUnderflow

\* RWMutex.RUnlock, lines 72-80.  A panic ends the goroutine; the word
\* keeps what was stored.
RW_RUnlock(t) ==
    /\ pc[t] \in RW_Client
    /\ rw_state' = AddUint32(rw_state, rwmutexReaderDecrease)
    /\ IF RW_RUnlockPanics(AddUint32(rw_state, rwmutexReaderDecrease))
       THEN /\ pc' = [pc EXCEPT ![t] = "panicked"]
            /\ last' = <<t, "RUnlock", "panic">>
       ELSE /\ pc' = [pc EXCEPT ![t] = "idle"]
            /\ last' = <<t, "RUnlock", "ok">>
    /\ UNCHANGED <<m_state, counter, tmp, cycles>>

\* A Lock that looks at the write flag only and sets it beside the readers.
RW_LockCAS_IgnoresReaders(t) ==
    /\ pc[t] \in RW_Client \cup {"wspin"}
    /\ rw_state' = IF RW_NoWriter(rw_state)
                   THEN AddUint32(rw_state, rwmutexWrite)
                   ELSE rw_state
    /\ IF RW_NoWriter(rw_state)
       THEN /\ pc' = [pc EXCEPT ![t] = "wheld"]
            /\ last' = <<t, "Lock", "ok">>
       ELSE /\ pc' = [pc EXCEPT ![t] = "wyield"]
            /\ last' = last
    /\ UNCHANGED <<m_state, counter, tmp, cycles>>

\* A Lock that stores the reader offset in place of the write flag.
RW_LockCAS_StoresOffset(t) ==
    /\ pc[t] \in RW_Client \cup {"wspin"}
    /\ rw_state' = CompareAndSwapVal(rw_state, rwmutexUnlocked, rwmutexReadOffset)
    /\ IF CompareAndSwapOk(rw_state, rwmutexUnlocked)
       THEN /\ pc' = [pc EXCEPT ![t] = "wheld"]
            /\ last' = <<t, "Lock", "ok">>
       ELSE /\ pc' = [pc EXCEPT ![t] = "wyield"]
            /\ last' = last
    /\ UNCHANGED <<m_state, counter, tmp, cycles>>

\* RWMutex.Lock, line 86: one compare-and-swap of the loop, the first one or
\* one after a Gosched (pc = "wspin").
RW_LockCAS(t) ==
    /\ pc[t] \in RW_Client \cup {"wspin"}
    /\ rw_state' = CompareAndSwapVal(rw_state, rwmutexUnlocked, rwmutexWrite)
    /\ IF CompareAndSwapOk(rw_state, rwmutexUnlocked)
       THEN /\ pc' = [pc EXCEPT ![t] = "wheld"]
            /\ last' = <<t, "Lock", "ok">>
       ELSE /\ pc' = [pc EXCEPT ![t] = "wyield"]
            /\ last' = last
    /\ UNCHANGED <<m_state, counter, tmp, cycles>>

\* RWMutex.Lock, line 87: runtime.Gosched(), then the loop tries again.
RW_LockGosched(t) ==
    /\ pc[t] = "wyield"
    /\ pc' = [pc EXCEPT ![t] = "wspin"]
    /\ UNCHANGED <<m_state, rw_state, last, counter, tmp, cycles>>

\* A TryLock that looks at the write flag only.
RW_TryLock_IgnoresReaders(t) ==
    /\ pc[t] \in RW_Client
    /\ rw_state' = IF RW_NoWriter(rw_state)
                   THEN AddUint32(rw_state, rwmutexWrite)
                   ELSE rw_state
    /\ IF RW_NoWriter(rw_state)
       THEN /\ pc' = [pc EXCEPT ![t] = "wheld"]
            /\ last' = <<t, "TryLock", "true">>
       ELSE /\ pc' = pc
            /\ last' = <<t, "TryLock", "false">>
    /\ UNCHANGED <<m_state, counter, tmp, cycles>>

\* RWMutex.TryLock, line 94: the compare-and-swap once, its result returned.
RW_TryLock(t) ==
    /\ pc[t] \in RW_Client
    /\ rw_state' = CompareAndSwapVal(rw_state, rwmutexUnlocked, rwmutexWrite)
    /\ IF CompareAndSwapOk(rw_state, rwmutexUnlocked)
       THEN /\ pc' = [pc EXCEPT ![t] = "wheld"]
            /\ last' = <<t, "TryLock", "true">>
       ELSE /\ pc' = pc
            /\ last' = <<t, "TryLock", "false">>
    /\ UNCHANGED <<m_state, counter, tmp, cycles>>

\* Whether RWMutex.Unlock panics on the value it stored: line 106.
RW_UnlockPanics(state) == And32(state, rwmutexWrite) > 0

\* RWMutex.Unlock, lines 103-109.  A panic ends the goroutine; the word
\* keeps what was stored.
RW_Unlock(t) ==
    /\ pc[t] \in RW_Client
    /\ rw_state' = AddUint32(rw_state, rwmutexWriterUnset)
    /\ IF RW_UnlockPanics(AddUint32(rw_state, rwmutexWriterUnset))
       THEN /\ pc' = [pc EXCEPT ![t] = "panicked"]
            /\ last' = <<t, "Unlock", "panic">>
       ELSE /\ pc' = [pc EXCEPT ![t] = "idle"]
            /\ last' = <<t, "Unlock", "ok">>
    /\ UNCHANGED <<m_state, counter, tmp, cycles>>

\* Goroutines that follow the protocol: an acquisition is started by a
\* goroutine that holds nothing, RUnlock is called by a goroutine whose
\* RLock/TryRLock succeeded, Unlock by one whose Lock/TryLock succeeded.
NextRW ==
    \E t \in Threads :
        \/ pc[t] = "idle" /\ RW_RLock(t) /\ UNCHANGED calls
        \/ RW_RLockLoad(t) /\ UNCHANGED calls
        \/ RW_RLockGosched(t) /\ UNCHANGED calls
        \/ pc[t] = "idle" /\ RW_TryRLock(t) /\ UNCHANGED calls
        \/ RW_TryRLockUndo(t) /\ UNCHANGED calls
        \/ pc[t] = "rheld" /\ RW_RUnlock(t) /\ UNCHANGED calls
        \/ pc[t] \in {"idle", "wspin"} /\ RW_LockCAS(t) /\ UNCHANGED calls
        \/ RW_LockGosched(t) /\ UNCHANGED calls
        \/ pc[t] = "idle" /\ RW_TryLock(t) /\ UNCHANGED calls
        \/ pc[t] = "wheld" /\ RW_Unlock(t) /\ UNCHANGED calls

SpecRW == Init /\ [][NextRW]_vars

\* What goroutine t does next once it is inside a call or holds the lock:
\* the next load or compare-and-swap of a loop, the Gosched, the undo of
\* TryRLock, and the RUnlock or Unlock of what it holds.
RW_Continue(t) ==
    \/ RW_RLockLoad(t) /\ UNCHANGED calls
    \/ RW_RLockGosched(t) /\ UNCHANGED calls
    \/ RW_TryRLockUndo(t) /\ UNCHANGED calls
    \/ pc[t] = "wspin" /\ RW_LockCAS(t) /\ UNCHANGED calls
    \/ RW_LockGosched(t) /\ UNCHANGED calls
    \/ pc[t] = "rheld" /\ RW_RUnlock(t) /\ UNCHANGED calls
    \/ pc[t] = "wheld" /\ RW_Unlock(t) /\ UNCHANGED calls

\* The scheduler runs every goroutine that can run: a goroutine inside a
\* call keeps taking its steps, and a holder releases what it holds.
\* Whether a goroutine that holds nothing calls again is up to it.
SpecRWLive ==
    /\ Init
    /\ [][NextRW]_vars
    /\ \A t \in Threads : WF_vars(RW_Continue(t))

\* State words the calls are tried on: reader counts 0, 1, 2, 2^30 - 1,
\* 2^30, 2^31 - 2 and 2^31 - 1, each with the write bit clear and set.
SampleWords ==
    {0, 1, 2, 3, 4, 5,
     MaxInt32 - 1, MaxInt32, MinInt32, MinInt32 + 1,
     -4, -3, -2, -1}

InitRWAny ==
    /\ m_state = mutexUnlocked
    /\ rw_state \in SampleWords
    /\ pc = [t \in Threads |-> "idle"]
    /\ last = <<0, "none", "none">>
    /\ counter = 0
    /\ tmp = [t \in Threads |-> 0]
    /\ cycles = [t \in Threads |-> 0]
    /\ calls = 0

\* Goroutines that call the six operations in any order on any state word.
\* At most MaxCalls calls are begun; a call that has begun runs on.
RW_Begin == calls < MaxCalls /\ calls' = calls + 1

NextRWAny ==
    \E t \in Threads :
        \/ RW_Begin /\ RW_RLock(t)
        \/ UNCHANGED calls /\ RW_RLockLoad(t)
        \/ UNCHANGED calls /\ RW_RLockGosched(t)
        \/ RW_Begin /\ RW_TryRLock(t)
        \/ UNCHANGED calls /\ RW_TryRLockUndo(t)
        \/ RW_Begin /\ RW_RUnlock(t)
        \/ RW_Begin /\ pc[t] \in RW_Client /\ RW_LockCAS(t)
        \/ UNCHANGED calls /\ pc[t] = "wspin" /\ RW_LockCAS(t)
        \/ UNCHANGED calls /\ RW_LockGosched(t)
        \/ RW_Begin /\ RW_TryLock(t)
        \/ RW_Begin /\ RW_Unlock(t)

SpecRWAny == InitRWAny /\ [][NextRWAny]_vars

---------------------------------------------------------------------------
(* Reading a state word, section 3 of the specification and the comments
   of lines 25-26: bit 0 is the write flag, the bits above it are the
   number of readers. *)

WriteFlag(s) == s % 2

\* The word shifted right by one as an unsigned number.
ReaderCount(s) ==
    IF s >= 0 THEN s \div 2 ELSE ((s \div 2) + MaxInt32) + 1

---------------------------------------------------------------------------
(* Properties of the Mutex *)

\* Goroutines inside the critical section: Lock or TryLock has returned
\* (true) and Unlock has not been called yet.
M_Holders == {t \in Threads : pc[t] \in {"cs", "write", "unlock"}}

RECURSIVE SumCycles(_)
SumCycles(S) ==
    IF S = {} THEN 0
    ELSE LET t == CHOOSE x \in S : TRUE
         IN  cycles[t] + SumCycles(S \ {t})

\* C1: with goroutines that unlock only what they locked, at most one
\* goroutine is inside the critical section at any instant, and the plain
\* counter loses no update: it counts every increment written, and is
\* NumThreads * MaxCycles when every goroutine has done its MaxCycles cycles.
C1_MutexExclusion ==
    /\ Cardinality(M_Holders) <= 1
    /\ counter = SumCycles(Threads)
                   + Cardinality({t \in Threads : pc[t] = "unlock"})
    /\ (\A t \in Threads : cycles[t] = MaxCycles)
          => counter = NumThreads * MaxCycles

\* A goroutine is about to write the counter while another one, having
\* failed a compare-and-swap, spins in Lock, and increments were made before.
C1_Witness ==
    \E t1, t2 \in Threads :
        /\ pc[t1] = "write"
        /\ pc[t2] = "spin"
        /\ counter >= 1

\* C4: Mutex.Unlock panics if and only if the mutex is not locked on entry;
\* on a locked mutex it returns normally and leaves the mutex unlocked,
\* whichever goroutine calls it.
C4_UnlockPanicsIffNotLocked ==
    [][\A t \in Threads :
         M_Unlock(t) =>
            /\ (last' = <<t, "Unlock", "panic">>) <=> (m_state # mutexLocked)
            /\ (m_state = mutexLocked) =>
                  /\ last' = <<t, "Unlock", "ok">>
                  /\ pc'[t] = "idle"
                  /\ m_state' = mutexUnlocked]_vars

\* A goroutine is in the critical section it locked; another goroutine has
\* unlocked the mutex for it and returned (the word went from 1 to 0), and
\* then a goroutine called Unlock on the unlocked mutex and panicked.
C4_Witness ==
    \E t1, t3 \in Threads :
        /\ pc[t1] = "cs"
        /\ pc[t3] = "panicked" /\ last = <<t3, "Unlock", "panic">>
        /\ m_state = -1

\* C5: Mutex.TryLock returns true exactly when the mutex was unlocked, and
\* then the mutex is locked and the caller holds it; it returns false
\* exactly when the mutex was locked, and then the word is unchanged and the
\* caller is where it was (it never enters a wait loop); the holder's later
\* Unlock never panics.
C5_TryLockSingleAttempt ==
    /\ [][\A t \in Threads :
            M_TryLock(t) =>
               /\ (last' = <<t, "TryLock", "true">>)
                     <=> (m_state = mutexUnlocked)
               /\ (last' = <<t, "TryLock", "false">>)
                     <=> (m_state = mutexLocked)
               /\ (last' = <<t, "TryLock", "true">>) =>
                     (m_state' = mutexLocked /\ pc'[t] = "cs")
               /\ (last' = <<t, "TryLock", "false">>) =>
                     (m_state' = m_state /\ pc'[t] = pc[t])]_vars
    /\ [][\A t \in Threads :
            M_Unlock(t) => last' = <<t, "Unlock", "ok">>]_vars

\* TryLock has just returned false to a goroutine while another goroutine
\* is in its critical section, about to unlock; the word is still LOCKED.
C5_Witness ==
    \E t1, t2 \in Threads :
        /\ last = <<t1, "TryLock", "false">> /\ pc[t1] = "idle"
        /\ pc[t2] = "unlock"
        /\ m_state = mutexLocked

---------------------------------------------------------------------------
(* Properties of the RWMutex *)

\* Goroutines holding a read lock: RLock has returned, or TryRLock has
\* returned true, and RUnlock has not been called yet.
RW_Readers == {t \in Threads : pc[t] = "rheld"}

\* Goroutines holding the write lock: Lock has returned, or TryLock has
\* returned true, and Unlock has not been called yet.
RW_Writers == {t \in Threads : pc[t] = "wheld"}

\* Goroutines between their increment of the reader count and the
\* decrement that cancels it.
RW_Incremented ==
    {t \in Threads : pc[t] \in {"rheld", "rwait", "ryield", "undo"}}

\* C2: with goroutines that follow the protocol, a writer never holds the
\* lock together with a reader or with another writer: no write acquisition
\* succeeds while a read lock is outstanding or the write lock is held, and
\* no read acquisition succeeds while the write lock is held.
C2_ReaderWriterExclusion ==
    RW_Writers # {} => (Cardinality(RW_Writers) = 1 /\ RW_Readers = {})

\* A writer holds the lock while a reader that has made its increment
\* waits in RLock and a second writer spins in Lock.
C2_Witness ==
    \E w, r, w2 \in Threads :
        /\ pc[w] = "wheld"
        /\ pc[r] = "ryield"
        /\ pc[w2] = "wspin"

\* C3: when no writer holds the lock at the increment, RLock returns
\* without entering its wait loop and TryRLock returns true, however many
\* readers hold the lock.
C3_SharedRead ==
    [][\A t \in Threads :
         /\ (RW_RLock(t) /\ RW_Writers = {}) =>
               (pc'[t] = "rheld" /\ last' = <<t, "RLock", "ok">>)
         /\ (RW_TryRLock(t) /\ RW_Writers = {}) =>
               (pc'[t] = "rheld" /\ last' = <<t, "TryRLock", "true">>)]_vars

\* Every goroutine holds a read lock at the same time, the last one to
\* acquire it through TryRLock.
C3_Witness ==
    /\ RW_Readers = Threads
    /\ Cardinality(RW_Readers) >= 2
    /\ \E t \in Threads : last = <<t, "TryRLock", "true">>

\* C6: TryRLock called while a writer holds the lock goes to its undo and
\* returns false; its increment adds one to the reader count and its undo
\* takes one off, neither touching the write flag; and whatever interleaves,
\* the reader count is the number of goroutines between increment and
\* decrement, so a TryRLock that has returned false has left it as it was.
C6_TryRLockUndoes ==
    /\ [][\A t \in Threads :
            /\ (RW_TryRLock(t) /\ RW_Writers # {}) => pc'[t] = "undo"
            /\ RW_TryRLock(t) =>
                  /\ ReaderCount(rw_state') = ReaderCount(rw_state) + 1
                  /\ WriteFlag(rw_state') = WriteFlag(rw_state)
            /\ RW_TryRLockUndo(t) =>
                  /\ last' = <<t, "TryRLock", "false">>
                  /\ pc'[t] = "idle"
                  /\ ReaderCount(rw_state') = ReaderCount(rw_state) - 1
                  /\ WriteFlag(rw_state') = WriteFlag(rw_state)]_vars
    /\ [](ReaderCount(rw_state) = Cardinality(RW_Incremented))

\* TryRLock has just returned false to a goroutine.  Between its increment
\* and its undo the writer unlocked and a second reader acquired the lock:
\* that reader holds it, and the count is that one reader's.
C6_Witness ==
    \E t, r, w \in Threads :
        /\ t # r /\ t # w /\ r # w
        /\ pc[t] = "idle" /\ last = <<t, "TryRLock", "false">>
        /\ pc[r] = "rheld"
        /\ pc[w] = "idle"
        /\ rw_state = rwmutexReadOffset

\* C7: RWMutex.TryLock returns true exactly when the word is 0, and then the
\* word is the write flag alone; it returns false whenever a reader or a
\* writer holds the lock, and then the word and the caller are unchanged.
C7_TryLockSingleCAS ==
    [][\A t \in Threads :
         RW_TryLock(t) =>
            /\ (last' = <<t, "TryLock", "true">>)
                  <=> (rw_state = rwmutexUnlocked)
            /\ (RW_Readers # {} \/ RW_Writers # {}) =>
                  last' = <<t, "TryLock", "false">>
            /\ (last' = <<t, "TryLock", "false">>) =>
                  (rw_state' = rw_state /\ pc'[t] = pc[t])
            /\ (last' = <<t, "TryLock", "true">>) =>
                  /\ rw_state' = rwmutexWrite
                  /\ WriteFlag(rw_state') = 1
                  /\ ReaderCount(rw_state') = 0
                  /\ pc'[t] = "wheld"]_vars

\* TryLock has returned false to a goroutine while two readers hold the
\* lock.
C7_Witness ==
    \E t, r1, r2 \in Threads :
        /\ r1 # r2
        /\ pc[t] = "idle" /\ last = <<t, "TryLock", "false">>
        /\ pc[r1] = "rheld" /\ pc[r2] = "rheld"
        /\ rw_state = 2 * rwmutexReadOffset

\* C8: when every successful RLock/TryRLock has had its RUnlock, no RLock
\* or TryRLock call is in progress and no write lock is held, the word is 0
\* (goroutines may be spinning in Lock).
C8_ReadRoundTrip ==
    (RW_Incremented = {} /\ RW_Writers = {}) => rw_state = rwmutexUnlocked

\* The last read lock has just been given back by RUnlock, and the lock is
\* at rest.
C8_Witness ==
    /\ \E t \in Threads : last = <<t, "RUnlock", "ok">>
    /\ \A t \in Threads : pc[t] = "idle"

\* C9: RWMutex.Unlock panics if and only if the write flag is clear on
\* entry, for every reader count; with the flag set it returns normally,
\* clears the flag and leaves the reader count as it was.
C9_UnlockPanicsIffNoWriteFlag ==
    [][\A t \in Threads :
         RW_Unlock(t) =>
            /\ (last' = <<t, "Unlock", "panic">>)
                  <=> (WriteFlag(rw_state) = 0)
            /\ (WriteFlag(rw_state) = 1) =>
                  /\ last' = <<t, "Unlock", "ok">>
                  /\ pc'[t] = "idle"
                  /\ WriteFlag(rw_state') = 0
                  /\ ReaderCount(rw_state') = ReaderCount(rw_state)]_vars

\* Unlock has returned normally while a reader waits in RLock: the flag is
\* clear and the count, the waiting reader's claim included, is 2^31 - 1.
C9_Witness ==
    \E t, r \in Threads :
        /\ last = <<t, "Unlock", "ok">> /\ pc[t] = "idle"
        /\ pc[r] \in {"rwait", "ryield"}
        /\ WriteFlag(rw_state) = 0
        /\ ReaderCount(rw_state) = MaxInt32

\* C10: RWMutex.RUnlock panics if and only if the reader count is 0 on
\* entry, with the write flag set or clear; otherwise it returns normally,
\* the count one less, the write flag and the other goroutines untouched.
C10_RUnlockPanicsIffNoReader ==
    [][\A t \in Threads :
         RW_RUnlock(t) =>
            /\ (last' = <<t, "RUnlock", "panic">>)
                  <=> (ReaderCount(rw_state) = 0)
            /\ (ReaderCount(rw_state) # 0) =>
                  /\ last' = <<t, "RUnlock", "ok">>
                  /\ pc'[t] = "idle"
                  /\ ReaderCount(rw_state') = ReaderCount(rw_state) - 1
            /\ WriteFlag(rw_state') = WriteFlag(rw_state)
            /\ \A u \in Threads \ {t} : pc'[u] = pc[u]]_vars

\* Two calls were made, the second an RUnlock that returned normally, and
\* the word is 0xFFFFFFFB: from the largest count, 2^31 - 1, with the write
\* flag set, two RUnlock calls have each taken one reader off.
C10_Witness ==
    \E t \in Threads :
        /\ last = <<t, "RUnlock", "ok">>
        /\ calls = 2
        /\ rw_state = -5

\* Goroutines that unlock only what they hold and that may call Lock again
\* while they hold the lock, on the Mutex or on the RWMutex.
NextReentrant ==
    \E t \in Threads :
        \/ M_LockCAS(t)
        \/ M_LockGosched(t)
        \/ M_TryLock(t)
        \/ pc[t] = "cs" /\ M_Unlock(t)
        \/ pc[t] \in {"idle", "wheld", "wspin"} /\ RW_LockCAS(t) /\ UNCHANGED calls
        \/ RW_LockGosched(t) /\ UNCHANGED calls
        \/ pc[t] = "idle" /\ RW_TryLock(t) /\ UNCHANGED calls
        \/ pc[t] = "wheld" /\ RW_Unlock(t) /\ UNCHANGED calls

SpecReentrant == Init /\ [][NextReentrant]_vars

---------------------------------------------------------------------------
(* Progress of Mutex.Lock *)

\* Goroutine t is inside Mutex.Lock: a compare-and-swap of its has failed.
M_Spinning(t) == pc[t] \in {"yield", "spin"}

\* C11 as stated: with every goroutine scheduled and every acquisition
\* followed by its Unlock, a goroutine inside Lock eventually holds the
\* mutex, also when the others keep contending.
C11_LockReturnsUnderContention ==
    \A t \in Threads : M_Spinning(t) ~> (pc[t] = "cs")

\* C11 as amended: with every goroutine scheduled and every acquisition
\* followed by its Unlock, a goroutine inside Lock eventually holds the
\* mutex provided the other goroutines stop holding it from some point on.
C11_LockReturnsOnceUncontended ==
    \A t \in Threads :
        (<>[](\A u \in Threads \ {t} : u \notin M_Holders))
            => (M_Spinning(t) ~> (pc[t] = "cs"))

\* A goroutine spins in Lock and the holder has just unlocked: the word is
\* UNLOCKED and the spinning goroutine's next compare-and-swap is pending.
C11_Witness ==
    \E t, u \in Threads :
        /\ pc[t] = "spin"
        /\ last = <<u, "Unlock", "ok">>
        /\ m_state = mutexUnlocked
        /\ M_Holders = {}

---------------------------------------------------------------------------
(* Reentrant Lock *)

\* Goroutine t is inside RWMutex.Lock: a compare-and-swap of its has failed.
RW_Spinning(t) == pc[t] \in {"wyield", "wspin"}

\* The Mutex is LOCKED and its holder is not in the critical section any
\* more: the holder called Lock again.
M_Relocked == m_state = mutexLocked /\ M_Holders = {}

\* The RWMutex is write-locked and the writer does not hold it any more:
\* the writer called Lock again.
RW_Relocked == rw_state = rwmutexWrite /\ RW_Writers = {}

\* C12: a goroutine that calls Lock on a Mutex, or the write Lock of an
\* RWMutex, that it holds does not get the lock, leaves the word as it is and
\* starts spinning; from then on, nobody else unlocking, the word stays
\* locked, no goroutine inside Lock returns, and nothing panics.
C12_NoReentrancy ==
    [][/\ \A t \in Threads :
            /\ (pc[t] = "cs" /\ M_LockCAS(t))
                  => (pc'[t] = "yield" /\ m_state' = m_state)
            /\ (pc[t] = "wheld" /\ RW_LockCAS(t))
                  => (pc'[t] = "wyield" /\ rw_state' = rw_state)
       /\ M_Relocked =>
            /\ M_Relocked'
            /\ \A t \in Threads : M_Spinning(t) => M_Spinning(t)'
       /\ RW_Relocked =>
            /\ RW_Relocked'
            /\ \A t \in Threads : RW_Spinning(t) => RW_Spinning(t)'
       /\ \A t \in Threads : pc'[t] # "panicked"
      ]_vars

\* One goroutine has called Mutex.Lock again and spins, another has called
\* RWMutex.Lock again and spins, and a third spins behind the first.
C12_Witness ==
    \E t, u, v \in Threads :
        /\ t # v
        /\ M_Relocked /\ pc[t] = "spin" /\ pc[v] = "yield"
        /\ RW_Relocked /\ pc[u] = "wspin"

---------------------------------------------------------------------------
(* Invariants of the state words *)

\* Goroutines counted in the reader count that do not hold the read lock:
\* they wait inside RLock or are about to undo the increment of TryRLock.
RW_Provisional == {t \in Threads : pc[t] \in {"rwait", "ryield", "undo"}}

\* C13 as stated: whenever the write flag is set, the reader count is 0.
C13_WriteFlagMeansNoCount ==
    WriteFlag(rw_state) = 1 => ReaderCount(rw_state) = 0

\* C13 as amended: whenever the write flag is set, no goroutine holds the
\* read lock, and the reader count is the number of goroutines that have
\* incremented it and are waiting in RLock or about to undo in TryRLock.
C13_WriteFlagMeansNoReader ==
    WriteFlag(rw_state) = 1 =>
        /\ RW_Readers = {}
        /\ ReaderCount(rw_state) = Cardinality(RW_Provisional)

\* A writer holds the lock while one goroutine waits inside RLock and
\* another has incremented in TryRLock: the word is 1 + 2 * 2.
C13_Witness ==
    \E w, r, u \in Threads :
        /\ pc[w] = "wheld" /\ pc[r] = "ryield" /\ pc[u] = "undo"
        /\ WriteFlag(rw_state) = 1
        /\ ReaderCount(rw_state) = 2

\* Goroutines whose Unlock panicked.
M_Panicked == {t \in Threads : pc[t] = "panicked"}

\* C14 as stated: whatever the goroutines call, the Mutex word is 0 or 1.
C14_WordIsZeroOrOne == m_state \in {0, 1}

\* C14 as amended: the Mutex word is 0 or 1 as long as no Unlock has
\* panicked; every Unlock that panics has stored the word minus one, so
\* that afterwards the word is minus the number of panics.
C14_WordIsZeroOrOneUntilPanic ==
    IF M_Panicked = {}
    THEN m_state \in {0, 1}
    ELSE m_state = 0 - Cardinality(M_Panicked)

\* Two goroutines have called Unlock on the unlocked Mutex: the word is -2,
\* and a third goroutine spins in Lock.
C14_Witness ==
    \E t \in Threads :
        /\ Cardinality(M_Panicked) = 2
        /\ m_state = -2
        /\ M_Spinning(t)

\* C15: when every goroutine follows the protocol, bit 0 of the RWMutex
\* word is set iff exactly one writer holds the lock, and the word divided
\* by 2 is the number of goroutines between their increment and their
\* decrement: holding the read lock, waiting in RLock, or about to undo.
C15_Encoding ==
    /\ (WriteFlag(rw_state) = 1) <=> (Cardinality(RW_Writers) = 1)
    /\ rw_state >= 0
    /\ rw_state \div 2 =
           Cardinality(RW_Readers) + Cardinality(RW_Provisional)

\* A writer holds the lock, one goroutine waits in RLock and one is about
\* to undo: the word is 5.
C15_Witness ==
    \E w, r, u \in Threads :
        /\ pc[w] = "wheld" /\ pc[r] = "rwait" /\ pc[u] = "undo"
        /\ rw_state = 5

---------------------------------------------------------------------------
(* The reader count and the write flag share no bit *)

\* The reader count after one more reader, and after one reader less, as
\* the 31 bits above the write flag hold it.
CountUp(n) == IF n = MaxInt32 THEN 0 ELSE n + 1
CountDown(n) == IF n = 0 THEN MaxInt32 ELSE n - 1

\* C16: on every value of the word, the additions of RLock and TryRLock and
\* the subtractions of TryRLock's undo and of RUnlock leave the write flag as
\* it is, and move the reader count by one modulo 2^31, also across the wrap
\* from 2^31 - 1 to 0 and back.
C16_ReaderUpdatesKeepWriteFlag ==
    [][\A t \in Threads :
          /\ (RW_RLock(t) \/ RW_TryRLock(t)) =>
                /\ WriteFlag(rw_state') = WriteFlag(rw_state)
                /\ ReaderCount(rw_state') = CountUp(ReaderCount(rw_state))
          /\ (RW_TryRLockUndo(t) \/ RW_RUnlock(t)) =>
                /\ WriteFlag(rw_state') = WriteFlag(rw_state)
                /\ ReaderCount(rw_state') = CountDown(ReaderCount(rw_state))
      ]_vars

\* RLock was called on the word 0xFFFFFFFF: the count wrapped from 2^31 - 1
\* to 0, the write flag is still set and the caller waits for it.
C16_Witness ==
    \E t \in Threads :
        /\ pc[t] = "rwait"
        /\ calls = 1
        /\ rw_state = 1

---------------------------------------------------------------------------
(* Progress of the RWMutex *)

\* Goroutine t is inside RLock: it has incremented and waits for the write
\* flag to clear.
RW_Waiting(t) == pc[t] \in {"rwait", "ryield"}

\* C17: while a goroutine has its increment in the reader count, no Lock or
\* TryLock acquires the write lock, and a write flag that is clear stays
\* clear; a goroutine inside RLock leaves it only by returning with the read
\* lock; and, every goroutine being scheduled and the writer unlocking,
\* again and again no goroutine is left waiting inside RLock, however many
\* goroutines spin in Lock: every RLock call returns.
C17_RLockNotStarved ==
    /\ [][/\ RW_Incremented # {} =>
               /\ \A w \in Threads : pc[w] # "wheld" => pc'[w] # "wheld"
               /\ WriteFlag(rw_state) = 0 => WriteFlag(rw_state') = 0
          /\ \A t \in Threads :
               RW_Waiting(t) => (RW_Waiting(t)' \/ pc'[t] = "rheld")
         ]_vars
    /\ []<>(\A t \in Threads : ~RW_Waiting(t))

\* A goroutine waits inside RLock, the writer it waited for has just
\* unlocked, and another goroutine spins in Lock: the word is 2.
C17_Witness ==
    \E r, w, v \in Threads :
        /\ pc[r] = "rwait"
        /\ last = <<w, "Unlock", "ok">>
        /\ pc[v] = "wspin"
        /\ rw_state = rwmutexReadOffset

---------------------------------------------------------------------------
(* Why RWMutex.TryLock fails *)

\* C18 as stated: a TryLock called while no goroutine holds the lock for
\* reading or for writing returns true.
C18_TryLockFailsOnlyIfHeld ==
    [][\A t \in Threads :
          (RW_TryLock(t) /\ RW_Readers = {} /\ RW_Writers = {})
              => last' = <<t, "TryLock", "true">>
      ]_vars

\* C18 as amended: TryLock returns false exactly when, at its
\* compare-and-swap, some goroutine holds the lock for reading or writing,
\* or waits inside RLock after its increment, or is between the increment
\* and the undo of TryRLock; otherwise it returns true.
C18_TryLockFailsIffHeldOrClaimed ==
    [][\A t \in Threads :
          RW_TryLock(t) =>
              /\ (last' = <<t, "TryLock", "false">>)
                    <=> (RW_Readers # {} \/ RW_Writers # {} \/ RW_Provisional # {})
              /\ (last' = <<t, "TryLock", "true">>)
                    <=> (RW_Readers = {} /\ RW_Writers = {} /\ RW_Provisional = {})
      ]_vars

\* TryLock has returned false while nobody held the lock: the word was 2
\* for a TryRLock that had not undone its increment yet.
C18_Witness ==
    \E t, u \in Threads :
        /\ last = <<t, "TryLock", "false">>
        /\ pc[u] = "undo"
        /\ RW_Readers = {} /\ RW_Writers = {}
        /\ rw_state = rwmutexReadOffset

---------------------------------------------------------------------------
(* The RWMutex does not deadlock *)

\* Some goroutine is inside RLock or Lock.
RW_Pending == \E t \in Threads : RW_Waiting(t) \/ RW_Spinning(t)

\* A goroutine that holds nothing begins a call.
RW_Request ==
    \E t \in Threads :
        /\ pc[t] = "idle"
        /\ RW_RLock(t) \/ RW_TryRLock(t) \/ RW_LockCAS(t) \/ RW_TryLock(t)

\* No goroutine is inside a call or holds the lock.
RW_Quiet == \A t \in Threads : pc[t] = "idle"

\* C19: with goroutines that follow the protocol, are all scheduled and
\* release what they hold: whenever some goroutine is inside RLock or Lock
\* and nobody holds the lock, some goroutine comes to hold it; whenever no
\* goroutine is inside a call or holds the lock, the word is 0; and once no
\* goroutine begins a call any more, the word returns to 0 and stays.
C19_NoDeadlock ==
    /\ (RW_Pending /\ RW_Readers = {} /\ RW_Writers = {})
           ~> (RW_Readers # {} \/ RW_Writers # {})
    /\ [](RW_Quiet => rw_state = rwmutexUnlocked)
    /\ (<>[][~RW_Request]_vars)
           => <>[](RW_Quiet /\ rw_state = rwmutexUnlocked)

\* Nobody holds the lock while one goroutine spins in Lock and another
\* waits in RLock: the word is 2, and the waiting reader goes first.
C19_Witness ==
    \E w, r \in Threads :
        /\ pc[w] = "wspin"
        /\ pc[r] = "ryield"
        /\ RW_Readers = {} /\ RW_Writers = {}
        /\ rw_state = rwmutexReadOffset

---------------------------------------------------------------------------
(* The second Mutex of src/mutex.go, lines 50-86: type Mutex int32 with
   Lock, LockYield and Unlock.  The word is m_state, with the constants
   mutexUnlocked and mutexLocked of lines 57-60. *)

\* Lock, line 68: one compare-and-swap of the loop, which has no body: a
\* goroutine whose swap failed ("busy") tries again at once.
M2_LockCAS(t) ==
    /\ pc[t] \in {"idle", "busy"}
    /\ m_state' = CompareAndSwapVal(m_state, mutexUnlocked, mutexLocked)
    /\ IF CompareAndSwapOk(m_state, mutexUnlocked)
       THEN /\ pc' = [pc EXCEPT ![t] = "cs"]
            /\ last' = <<t, "Lock", "ok">>
       ELSE /\ pc' = [pc EXCEPT ![t] = "busy"]
            /\ last' = last
    /\ UNCHANGED <<rw_state, counter, tmp, cycles>>

\* LockYield, line 76: one compare-and-swap of the loop.
M2_LockYieldCAS(t) ==
    /\ pc[t] \in {"idle", "spin"}
    /\ m_state' = CompareAndSwapVal(m_state, mutexUnlocked, mutexLocked)
    /\ IF CompareAndSwapOk(m_state, mutexUnlocked)
       THEN /\ pc' = [pc EXCEPT ![t] = "cs"]
            /\ last' = <<t, "LockYield", "ok">>
       ELSE /\ pc' = [pc EXCEPT ![t] = "yield"]
            /\ last' = last
    /\ UNCHANGED <<rw_state, counter, tmp, cycles>>

\* LockYield, line 77: runtime.Gosched(), then the loop tries again.
M2_LockYieldGosched(t) ==
    /\ pc[t] = "yield"
    /\ pc' = [pc EXCEPT ![t] = "spin"]
    /\ UNCHANGED <<m_state, rw_state, last, counter, tmp, cycles>>

\* Whether Unlock panics on the value it stored: line 83.
M2_UnlockPanics(state) == AddInt32(state, mutexLocked) # mutexUnlocked

\* Unlock, lines 82-85: the decrement, then the test of what it produced.
M2_Unlock(t) ==
    /\ pc[t] \in M_Client
    /\ m_state' = AddInt32(m_state, -mutexLocked)
    /\ IF M2_UnlockPanics(AddInt32(m_state, -mutexLocked))
       THEN /\ pc' = [pc EXCEPT ![t] = "panicked"]
            /\ last' = <<t, "Unlock", "panic">>
       ELSE /\ pc' = [pc EXCEPT ![t] = "idle"]
            /\ last' = <<t, "Unlock", "ok">>
    /\ UNCHANGED <<rw_state, counter, tmp, cycles>>

\* Goroutines that call Lock or LockYield and unlock what they hold, and at
\* most MaxCalls calls of Unlock by goroutines that hold nothing.
NextMutex2 ==
    \E t \in Threads :
        \/ M2_LockCAS(t) /\ UNCHANGED calls
        \/ M2_LockYieldCAS(t) /\ UNCHANGED calls
        \/ M2_LockYieldGosched(t) /\ UNCHANGED calls
        \/ pc[t] = "cs" /\ M2_Unlock(t) /\ UNCHANGED calls
        \/ pc[t] = "idle" /\ M2_Unlock(t) /\ RW_Begin

SpecMutex2 == Init /\ [][NextMutex2]_vars

\* C20: in the second Mutex, an Unlock of a mutex that is locked on entry
\* returns normally and leaves the word UNLOCKED, and an Unlock panics
\* exactly when the mutex was not locked on entry.
C20_Unlock2PanicsIffNotLocked ==
    [][\A t \in Threads :
          M2_Unlock(t) =>
              /\ (last' = <<t, "Unlock", "panic">>) <=> (m_state # mutexLocked)
              /\ m_state = mutexLocked =>
                    (m_state' = mutexUnlocked /\ pc'[t] = "idle")
      ]_vars

===========================================================================
